---- MODULE Spec2Model ----
(***************************************************************************)
(* Model of the survey reader of Mini-SPSS (services/sav_reader.py, used   *)
(* by main.py): the SAVReader with its two caches, the question catalog,   *)
(* the filter engine and the aggregation engine.                           *)
(*                                                                         *)
(* Encodings.  Python's None is the empty tuple <<>> and a value x that is *)
(* present is <<x>>.  A dict is a function whose DOMAIN is its key set.    *)
(* A cell of the table is a record [kind, v]: kind "num" with the number   *)
(* v, kind "str" with v the rank of the text in lexicographic order, or    *)
(* kind "nan" for the missing marker.  A percentage is kept in hundredths  *)
(* (50.0 is 5000), so that rounding to two decimals is exact arithmetic.   *)
(***************************************************************************)
EXTENDS Integers, Sequences, FiniteSets, TLC

VARIABLES
    artifact,          \* the backing file: [status, data]
    cached_data,       \* SAVReader._cached_data: None or <<(df, meta)>>
    cached_preguntas,  \* SAVReader._cached_preguntas: None or <<catalog>>
    reads,             \* successful read_sav calls since construction / clear_cache
    first,             \* the pair the first of those reads returned (None before)
    dropped,           \* the catalog the last clear_cache discarded (None before)
    usuarios,          \* the rows of the table usuarios of users.db
    ret,               \* the call that has just returned: None or <<[op, ...]>>
    pc,                \* per request thread: the statement it is at
    loc                \* per request thread: its local variables

vars == <<artifact, cached_data, cached_preguntas, reads, first, dropped, usuarios,
         ret, pc, loc>>

(***************************************************************************)
(* Bounds of the model.                                                    *)
(***************************************************************************)
MaxRows == 2        \* rows of an enumerated table
MaxReads == 3       \* cap on the read counter
MaxDistinct == 31   \* distinct ages of a wide table
NThreads == 2       \* request threads of the worker pool
MaxDigits == 2      \* digits of an enumerated identifier
MaxProfiles == 3    \* largest id the table usuarios hands out

None == <<>>
Some(x) == <<x>>

NaN == [kind |-> "nan", v |-> 0]
Num(n) == [kind |-> "num", v |-> n]
Str(i) == [kind |-> "str", v |-> i]

\* isinstance(valor, str)
IsStr(valor) == valor.kind = "str"

\* str(valor): a float64 cell prints with its fraction, a text cell is itself
Texts == <<"a", "b">>
StrOf(valor) ==
    IF IsStr(valor) THEN Texts[valor.v] ELSE ToString(valor.v) \o ".0"

\* dict.get(key, default)
Get(d, key, default) == IF key \in DOMAIN d THEN d[key] ELSE default

\* d[key] = value on a dict
Put(d, key, value) ==
    [k \in DOMAIN d \cup {key} |-> IF k = key THEN value ELSE d[k]]

Range(s) == {s[i] : i \in DOMAIN s}

RECURSIVE SumSeq(_)
SumSeq(s) == IF s = <<>> THEN 0 ELSE Head(s) + SumSeq(Tail(s))

(***************************************************************************)
(* The category taxonomy.                                                  *)
(***************************************************************************)

\* the ids of CATEGORIAS
CategoriaIds == 1..13

\* an identifier is the sequence of its characters
Digits == <<"0", "1", "2", "3", "4", "5", "6", "7", "8", "9">>
IsDigit(c) == c \in Range(Digits)
DigitValue(c) == CHOOSE d \in 0..9 : Digits[d + 1] = c

\* the number of digits s holds from position k on, up to the first character
\* that is no digit: what the greedy \d+ takes
RECURSIVE DigitRun(_, _)
DigitRun(s, k) ==
    IF k <= Len(s) /\ IsDigit(s[k]) THEN 1 + DigitRun(s, k + 1) ELSE 0

\* re.match(r'^(?:T_)?Q_(\d+)(?:_.*)?$', identificador): group 1 of the
\* match, None when there is none.  After the digits the identifier ends or
\* goes on with "_"; giving digits back never helps, a digit being neither
\* (identifiers hold no line break)
re_match(identificador) ==
    LET body == IF Len(identificador) >= 2 /\ SubSeq(identificador, 1, 2) = <<"T", "_">>
                THEN SubSeq(identificador, 3, Len(identificador))
                ELSE identificador
        n == DigitRun(body, 3)
    IN IF Len(body) >= 3 /\ body[1] = "Q" /\ body[2] = "_" /\ n >= 1
          /\ (Len(body) = 2 + n \/ body[3 + n] = "_")
       THEN Some(SubSeq(body, 3, 2 + n))
       ELSE None

\* int(match.group(1))
RECURSIVE int(_)
int(digits) ==
    IF digits = <<>> THEN 0
    ELSE 10 * int(SubSeq(digits, 1, Len(digits) - 1)) + DigitValue(digits[Len(digits)])

\* a faulty rule chain with the rule of category 12 ahead of that of 11
get_categoria_for_question_reordered(identificador) ==
    LET match == re_match(identificador) IN
    IF match = None THEN None
    ELSE LET q_num == int(match[1]) IN
         IF 1 <= q_num /\ q_num <= 5 THEN Some(1)
         ELSE IF 6 <= q_num /\ q_num <= 13 THEN Some(2)
         ELSE IF 14 <= q_num /\ q_num <= 21 THEN Some(3)
         ELSE IF 22 <= q_num /\ q_num <= 31 THEN Some(4)
         ELSE IF q_num = 32 THEN Some(5)
         ELSE IF 33 <= q_num /\ q_num <= 34 THEN Some(6)
         ELSE IF q_num = 35 THEN Some(7)
         ELSE IF 36 <= q_num /\ q_num <= 37 THEN Some(8)
         ELSE IF 38 <= q_num /\ q_num <= 43 THEN Some(9)
         ELSE IF 44 <= q_num /\ q_num <= 53 THEN Some(10)
         ELSE IF 57 <= q_num /\ q_num <= 66 THEN Some(12)
         ELSE IF (54 <= q_num /\ q_num <= 56) \/ q_num = 60 THEN Some(11)
         ELSE IF 67 <= q_num /\ q_num <= 73 THEN Some(13)
         ELSE None

get_categoria_for_question(identificador) ==
    LET match == re_match(identificador) IN
    IF match = None THEN None
    ELSE LET q_num == int(match[1]) IN
         IF 1 <= q_num /\ q_num <= 5 THEN Some(1)
         ELSE IF 6 <= q_num /\ q_num <= 13 THEN Some(2)
         ELSE IF 14 <= q_num /\ q_num <= 21 THEN Some(3)
         ELSE IF 22 <= q_num /\ q_num <= 31 THEN Some(4)
         ELSE IF q_num = 32 THEN Some(5)
         ELSE IF 33 <= q_num /\ q_num <= 34 THEN Some(6)
         ELSE IF q_num = 35 THEN Some(7)
         ELSE IF 36 <= q_num /\ q_num <= 37 THEN Some(8)
         ELSE IF 38 <= q_num /\ q_num <= 43 THEN Some(9)
         ELSE IF 44 <= q_num /\ q_num <= 53 THEN Some(10)
         ELSE IF (54 <= q_num /\ q_num <= 56) \/ q_num = 60 THEN Some(11)
         ELSE IF 57 <= q_num /\ q_num <= 66 THEN Some(12)
         ELSE IF 67 <= q_num /\ q_num <= 73 THEN Some(13)
         ELSE None

(***************************************************************************)
(* The aggregation engine.                                                 *)
(***************************************************************************)

\* df[column] over the retained rows idx, in row order
Column(df, idx, column) == [i \in DOMAIN idx |-> df.rows[idx[i]][column]]

\* a faulty dropna that keeps the missing cells
DropNa_Keep(vals) == vals

\* Series.dropna()
DropNa(vals) == SelectSeq(vals, LAMBDA x : x.kind # "nan")

\* the distinct values of vals in order of first appearance
RECURSIVE Distinct(_)
Distinct(vals) ==
    IF vals = <<>> THEN <<>>
    ELSE LET front == Distinct(SubSeq(vals, 1, Len(vals) - 1))
             last == vals[Len(vals)]
         IN IF last \in Range(front) THEN front ELSE Append(front, last)

Occurrences(vals, x) == Cardinality({i \in DOMAIN vals : vals[i] = x})

\* stable insertion of a group into groups ordered by count, largest first
RECURSIVE InsertByCount(_, _)
InsertByCount(g, s) ==
    IF s = <<>> THEN <<g>>
    ELSE IF g.cantidad > Head(s).cantidad THEN <<g>> \o s
    ELSE <<Head(s)>> \o InsertByCount(g, Tail(s))

RECURSIVE SortByCount(_)
SortByCount(s) ==
    IF s = <<>> THEN <<>>
    ELSE InsertByCount(s[Len(s)], SortByCount(SubSeq(s, 1, Len(s) - 1)))

\* a faulty value_counts that, as over a categorical column, also lists the
\* codes that do not occur
value_counts_categorical(vals) ==
    LET d == Distinct(vals \o <<Num(1), Num(2)>>) IN
    SortByCount([i \in DOMAIN d |->
                    [valor |-> d[i], cantidad |-> Occurrences(vals, d[i])]])

\* Series.value_counts(): one group per distinct value, most frequent first
value_counts(vals) ==
    LET d == Distinct(vals) IN
    SortByCount([i \in DOMAIN d |->
                    [valor |-> d[i], cantidad |-> Occurrences(vals, d[i])]])

\* a faulty sort key that leaves out isinstance(x["valor"], str)
KeyLess_ByValue(a, b) == a.valor.v < b.valor.v

\* the sort key (isinstance(x["valor"], str), x["valor"]) compared as tuples
KeyLess(a, b) ==
    \/ ~IsStr(a.valor) /\ IsStr(b.valor)
    \/ IsStr(a.valor) = IsStr(b.valor) /\ a.valor.v < b.valor.v

\* respuestas.sort(key=...): list.sort is stable
RECURSIVE InsertByKey(_, _)
InsertByKey(x, s) ==
    IF s = <<>> THEN <<x>>
    ELSE IF KeyLess(x, Head(s)) THEN <<x>> \o s
    ELSE <<Head(s)>> \o InsertByKey(x, Tail(s))

RECURSIVE SortByKey(_)
SortByKey(s) ==
    IF s = <<>> THEN <<>>
    ELSE InsertByKey(s[Len(s)], SortByKey(SubSeq(s, 1, Len(s) - 1)))

\* a faulty rounding that cuts the third decimal off
Round2_Truncate(num, den) == (num * 10000) \div den

\* round(x, 2) of x = num / den * 100, in hundredths: to nearest, ties to even
Round2(num, den) ==
    LET n == num * 10000
        q == n \div den
        r == n % den
    IN IF 2 * r < den THEN q
       ELSE IF 2 * r > den THEN q + 1
       ELSE IF q % 2 = 0 THEN q ELSE q + 1

\* a faulty choice of the value with the test on tipo inverted
valor_respuesta_inverted(tipo, cantidad, total_respuestas) ==
    IF tipo # "porcentaje"
    THEN IF total_respuestas > 0 THEN Round2(cantidad, total_respuestas) ELSE 0
    ELSE cantidad

\* the value reported for one group
valor_respuesta(tipo, cantidad, total_respuestas) ==
    IF tipo = "porcentaje"
    THEN IF total_respuestas > 0 THEN Round2(cantidad, total_respuestas) ELSE 0
    ELSE cantidad

\* a faulty label lookup that never consults the value labels
LabelOf_str(question_value_labels, valor) == StrOf(valor)

\* the label of a value: question_value_labels.get(valor, str(valor))
LabelOf(question_value_labels, valor) ==
    LET hit == SelectSeq(question_value_labels, LAMBDA o : o[1] = valor) IN
    IF hit = <<>> THEN StrOf(valor) ELSE hit[1][2]

\* the unsorted response list built by the loop over value_counts.items()
BuildRespuestas(counts, total_respuestas, tipo, question_value_labels) ==
    [i \in DOMAIN counts |->
        [valor |-> counts[i].valor,
         etiqueta |-> LabelOf(question_value_labels, counts[i].valor),
         key |-> tipo,
         metric |-> valor_respuesta(tipo, counts[i].cantidad, total_respuestas)]]

\* the part both query methods share: label lookup, counting, sorting
Distribute(data, idx, question_id, tipo) ==
    LET column_labels == data.meta.column_names_to_labels
        pregunta_texto == Get(column_labels, question_id, question_id)
        value_labels == data.meta.variable_value_labels
        question_value_labels == Get(value_labels, question_id, <<>>)
        counts == value_counts(DropNa(Column(data.df, idx, question_id)))
        total_respuestas == SumSeq([i \in DOMAIN counts |-> counts[i].cantidad])
    IN [identificador |-> question_id,
        pregunta |-> pregunta_texto,
        tipo_respuesta |-> tipo,
        respuestas |-> SortByKey(BuildRespuestas(counts, total_respuestas, tipo,
                                                 question_value_labels)),
        total_respuestas |-> total_respuestas]

(***************************************************************************)
(* The filter engine.                                                      *)
(***************************************************************************)

\* simple_filters: filter_key -> column_name, in the dict's order
simple_filters ==
    << <<"calidad_vida", "CALIDAD_VIDA">>,
       <<"municipio", "Q_94">>,
       <<"sexo", "SEXO">>,
       <<"escolaridad", "ESC">>,
       <<"nse", "NSE2024_C">> >>

\* column in df.columns
HasColumn(df, column) == column \in Range(df.cols)

\* the element-wise comparisons of a numeric cell with a number; a missing
\* cell (and, for ==, a text cell) compares False
\* a faulty == under which a missing cell compares True
CellEq_missing(cell, value) == cell.kind = "nan" \/ (cell.kind = "num" /\ cell.v = value)

CellEq(cell, value) == cell.kind = "num" /\ cell.v = value
CellGe(cell, value) == cell.kind = "num" /\ cell.v >= value

\* a faulty <= that leaves the bound itself out
CellLe_strict(cell, value) == cell.kind = "num" /\ cell.v < value

CellLe(cell, value) == cell.kind = "num" /\ cell.v <= value

\* a faulty _apply_simple_filter that filters the original table again
\* and so forgets the filters applied before it
apply_simple_filter_restart(df, st, column, value, filter_key) ==
    IF HasColumn(df, column)
    THEN [idx |-> SelectSeq([i \in 1..Len(df.rows) |-> i],
                            LAMBDA i : CellEq(df.rows[i][column], value)),
          filtros_aplicados |-> Put(st.filtros_aplicados, filter_key, Some(value))]
    ELSE st

\* a faulty _apply_simple_filter that records the key outside the test
apply_simple_filter_recording(df, st, column, value, filter_key) ==
    [idx |-> IF HasColumn(df, column)
             THEN SelectSeq(st.idx, LAMBDA i : CellEq(df.rows[i][column], value))
             ELSE st.idx,
     filtros_aplicados |-> Put(st.filtros_aplicados, filter_key, Some(value))]

\* _apply_simple_filter: st is the pair (filtered_df, filtros_aplicados)
apply_simple_filter(df, st, column, value, filter_key) ==
    IF HasColumn(df, column)
    THEN [idx |-> SelectSeq(st.idx, LAMBDA i : CellEq(df.rows[i][column], value)),
          filtros_aplicados |-> Put(st.filtros_aplicados, filter_key, Some(value))]
    ELSE st

\* the loop over simple_filters.items(), from its k-th item on
RECURSIVE ApplySimpleFilters(_, _, _, _)
ApplySimpleFilters(df, st, filtros, k) ==
    IF k > Len(simple_filters) THEN st
    ELSE LET filter_key == simple_filters[k][1]
             column_name == simple_filters[k][2]
             next == IF filter_key \in DOMAIN filtros /\ filtros[filter_key] # None
                     THEN apply_simple_filter(df, st, column_name,
                                              filtros[filter_key][1], filter_key)
                     ELSE st
         IN ApplySimpleFilters(df, next, filtros, k + 1)

\* the age block: Q_75 between the bounds the range gives
ApplyEdad(df, st, filtros) ==
    IF "edad" \in DOMAIN filtros /\ filtros["edad"] # None
    THEN LET edad_filter == filtros["edad"][1] IN
         IF HasColumn(df, "Q_75")
         THEN LET min_age == Get(edad_filter, "min", None)
                  max_age == Get(edad_filter, "max", None)
                  idx == IF min_age # None /\ max_age # None
                         THEN SelectSeq(st.idx,
                                  LAMBDA i : /\ CellGe(df.rows[i]["Q_75"], min_age[1])
                                             /\ CellLe(df.rows[i]["Q_75"], max_age[1]))
                         ELSE IF min_age # None
                         THEN SelectSeq(st.idx,
                                  LAMBDA i : CellGe(df.rows[i]["Q_75"], min_age[1]))
                         ELSE IF max_age # None
                         THEN SelectSeq(st.idx,
                                  LAMBDA i : CellLe(df.rows[i]["Q_75"], max_age[1]))
                         ELSE st.idx
              IN [idx |-> idx,
                  filtros_aplicados |-> Put(st.filtros_aplicados, "edad", Some(edad_filter))]
         ELSE st
    ELSE st

\* a faulty filter block that keeps no row when no filter is given
ApplyFilters_empty(df, st, filtros) ==
    IF filtros # None /\ DOMAIN filtros[1] # {}
    THEN ApplyEdad(df, ApplySimpleFilters(df, st, filtros[1], 1), filtros[1])
    ELSE [idx |-> <<>>, filtros_aplicados |-> <<>>]

\* the filter block of get_question_responses_with_filters on the view st
\* of df: `if filtros:` is false for None and for the empty dict
ApplyFilters(df, st, filtros) ==
    IF filtros # None /\ DOMAIN filtros[1] # {}
    THEN ApplyEdad(df, ApplySimpleFilters(df, st, filtros[1], 1), filtros[1])
    ELSE st

\* a faulty filter block that works on the cached frame itself and drops
\* the rows in place
FrameAfter_shared(df, st) ==
    [cols |-> df.cols, rows |-> [i \in DOMAIN st.idx |-> df.rows[st.idx[i]]]]

\* the frame df names once the filter block has run to the view st:
\* filtered_df is a copy and every filter builds a new frame by filtered_df[mask]
\* and rebinds the local name, so df is as it was
FrameAfter(df, st) == df

\* df.copy() with an empty filtros_aplicados
Unfiltered(df) == [idx |-> [i \in 1..Len(df.rows) |-> i], filtros_aplicados |-> <<>>]

(***************************************************************************)
(* The methods of SAVReader, as functions of the state they read.          *)
(***************************************************************************)

\* the class of a raised error: both failures of load_data raise
\* SAVReaderError itself, with different messages
ErrorType(err) ==
    IF err \in {"SAVReaderError: Data file not found",
                "SAVReaderError: Error reading data file"}
    THEN "SAVReaderError"
    ELSE err

\* the classes an error is an instance of, which is what `except` tests
Bases(cls) ==
    IF cls \in {"QuestionNotFoundError", "CategoryNotFoundError"}
    THEN {cls, "SAVReaderError", "Exception"}
    ELSE {cls, "Exception"}

\* a faulty load_data without the test of the cache
load_data_uncached(cache, file) ==
    IF file.status = "missing"
    THEN [err |-> Some("SAVReaderError: Data file not found"),
          pair |-> None, called |-> FALSE, read |-> FALSE]
    ELSE IF file.status = "corrupt"
    THEN [err |-> Some("SAVReaderError: Error reading data file"),
          pair |-> None, called |-> TRUE, read |-> FALSE]
    ELSE [err |-> None, pair |-> Some(file.data), called |-> TRUE, read |-> TRUE]

\* load_data: the error raised (None when none), the pair returned, and
\* whether read_sav was called and whether it returned
load_data(cache, file) ==
    IF cache # None
    THEN [err |-> None, pair |-> cache, called |-> FALSE, read |-> FALSE]
    ELSE IF file.status = "missing"
    THEN [err |-> Some("SAVReaderError: Data file not found"),
          pair |-> None, called |-> FALSE, read |-> FALSE]
    ELSE IF file.status = "corrupt"
    THEN [err |-> Some("SAVReaderError: Error reading data file"),
          pair |-> None, called |-> TRUE, read |-> FALSE]
    ELSE [err |-> None, pair |-> Some(file.data), called |-> TRUE, read |-> TRUE]

\* the characters of the column names the enumerated tables use
Spell(column) ==
    CASE column = "Q_1" -> <<"Q", "_", "1">>
      [] column = "Q_2" -> <<"Q", "_", "2">>
      [] column = "Q_60" -> <<"Q", "_", "6", "0">>
      [] column = "Q_75" -> <<"Q", "_", "7", "5">>
      [] column = "SEXO" -> <<"S", "E", "X", "O">>
      [] column = "ESC" -> <<"E", "S", "C">>

\* a faulty catalog that lists the columns whose label is empty too
Preguntas_unlabelled(data) ==
    LET column_labels == data.meta.column_names_to_labels
        value_labels == data.meta.variable_value_labels
        labelled == SelectSeq(data.df.cols,
                        LAMBDA column : column \in DOMAIN column_labels)
    IN [i \in DOMAIN labelled |->
          [identificador |-> labelled[i],
           pregunta |-> column_labels[labelled[i]],
           categoria |-> get_categoria_for_question(Spell(labelled[i])),
           opciones |-> IF labelled[i] \in DOMAIN value_labels
                        THEN [j \in DOMAIN value_labels[labelled[i]] |->
                                [valor |-> value_labels[labelled[i]][j][1],
                                 etiqueta |-> value_labels[labelled[i]][j][2]]]
                        ELSE <<>>]]

\* the catalog load_preguntas computes from (df, meta)
Preguntas(data) ==
    LET column_labels == data.meta.column_names_to_labels
        value_labels == data.meta.variable_value_labels
        labelled == SelectSeq(data.df.cols,
                        LAMBDA column : column \in DOMAIN column_labels
                                        /\ column_labels[column] # "")
    IN [i \in DOMAIN labelled |->
          [identificador |-> labelled[i],
           pregunta |-> column_labels[labelled[i]],
           categoria |-> get_categoria_for_question(Spell(labelled[i])),
           opciones |-> IF labelled[i] \in DOMAIN value_labels
                        THEN [j \in DOMAIN value_labels[labelled[i]] |->
                                [valor |-> value_labels[labelled[i]][j][1],
                                 etiqueta |-> value_labels[labelled[i]][j][2]]]
                        ELSE <<>>]]

\* a faulty get_categoria_by_id that returns None for an unknown id
get_categoria_by_id_lenient(categoria_id) ==
    [err |-> None,
     val |-> IF categoria_id \in CategoriaIds THEN Some(categoria_id) ELSE None]

\* get_categoria_by_id: the category (its id) or the error raised
get_categoria_by_id(categoria_id) ==
    IF categoria_id \in CategoriaIds
    THEN [err |-> None, val |-> Some(categoria_id)]
    ELSE [err |-> Some("CategoryNotFoundError"), val |-> None]

\* the list comprehension of get_preguntas_by_categoria
OfCategoria(preguntas, categoria_id) ==
    SelectSeq(preguntas, LAMBDA p : p.categoria # None /\ p.categoria[1] = categoria_id)

\* get_question_responses on the loaded pair
get_question_responses(data, question_id, tipo) ==
    IF ~HasColumn(data.df, question_id)
    THEN [err |-> Some("QuestionNotFoundError"), val |-> None,
          filtered_df |-> None, filtros_aplicados |-> None]
    ELSE [err |-> None,
          val |-> Some(Distribute(data, Unfiltered(data.df).idx, question_id, tipo)),
          filtered_df |-> None, filtros_aplicados |-> None]

\* a faulty get_question_responses_with_filters that answers an unknown
\* identifier with an empty distribution
get_question_responses_with_filters_unchecked(data, question_id, tipo, filtros) ==
    LET st == ApplyFilters(data.df, Unfiltered(data.df), filtros) IN
    [err |-> None,
     val |-> Some(IF HasColumn(data.df, question_id)
                  THEN Distribute(data, st.idx, question_id, tipo)
                  ELSE [identificador |-> question_id, pregunta |-> question_id,
                        tipo_respuesta |-> tipo, respuestas |-> <<>>,
                        total_respuestas |-> 0]),
     filtered_df |-> Some(st.idx),
     filtros_aplicados |-> Some(st.filtros_aplicados),
     df |-> FrameAfter(data.df, st)]

\* get_question_responses_with_filters on the loaded pair; filtered_df is the
\* index of the local filtered_df, which the method does not return, and df
\* the cached frame as the method leaves it
get_question_responses_with_filters(data, question_id, tipo, filtros) ==
    IF ~HasColumn(data.df, question_id)
    THEN [err |-> Some("QuestionNotFoundError"), val |-> None,
          filtered_df |-> None, filtros_aplicados |-> None, df |-> data.df]
    ELSE LET st == ApplyFilters(data.df, Unfiltered(data.df), filtros) IN
         [err |-> None,
          val |-> Some(Distribute(data, st.idx, question_id, tipo)),
          filtered_df |-> Some(st.idx),
          filtros_aplicados |-> Some(st.filtros_aplicados),
          df |-> FrameAfter(data.df, st)]

(***************************************************************************)
(* The datasets and requests the model draws from.                         *)
(***************************************************************************)

Cells == {NaN, Num(1), Num(2), Str(1), Str(2)}

\* the metadata of the enumerated datasets: Q_1 and Q_75 carry a question
\* text, SEXO an empty label, the other columns none; Q_1 and SEXO carry
\* value labels
TheMeta ==
    [column_names_to_labels |->
        [c \in {"Q_1", "Q_75", "SEXO"} |->
            CASE c = "Q_1" -> "Satisfaccion"
              [] c = "Q_75" -> "Edad"
              [] OTHER -> ""],
     variable_value_labels |->
        [c \in {"Q_1", "SEXO"} |->
            IF c = "Q_1" THEN << <<Num(2), "Mucho">>, <<Num(1), "Poco">> >>
            ELSE << <<Num(1), "Hombre">>, <<Num(2), "Mujer">> >>]]

\* a schema: the columns in declaration order and the cells each may hold
Schemas ==
    { [cols |-> <<"Q_1", "SEXO">>,
       dom |-> [c \in {"Q_1", "SEXO"} |->
                  IF c = "Q_1" THEN Cells ELSE {NaN, Num(1)}]],
      [cols |-> <<"SEXO", "ESC", "Q_75", "Q_1">>,
       dom |-> [c \in {"SEXO", "ESC", "Q_75", "Q_1"} |->
                  CASE c = "Q_75" -> {NaN, Num(1), Num(2)}
                    [] c = "Q_1" -> {Num(1)}
                    [] OTHER -> {Num(1), Num(2)}]],
      [cols |-> <<"Q_1">>,
       dom |-> [c \in {"Q_1"} |-> {NaN, Num(1), Num(2)}]] }

RowsOf(schema) ==
    {r \in [Range(schema.cols) -> Cells] :
        \A c \in Range(schema.cols) : r[c] \in schema.dom[c]}

CellCode(cell) ==
    CASE cell.kind = "nan" -> 0
      [] cell.kind = "num" -> cell.v
      [] OTHER -> 2 + cell.v

RECURSIVE RowCode(_, _, _)
RowCode(cols, r, k) ==
    IF k > Len(cols) THEN 0
    ELSE CellCode(r[cols[k]]) + 5 * RowCode(cols, r, k + 1)

\* one table per multiset of at most MaxRows rows of the schema (the order of
\* the rows decides nothing but the row labels)
TablesOf(schema) ==
    UNION { {[cols |-> schema.cols, rows |-> rows] :
               rows \in {t \in [1..n -> RowsOf(schema)] :
                            \A i \in 1..(n - 1) :
                               RowCode(schema.cols, t[i], 1)
                                  >= RowCode(schema.cols, t[i + 1], 1)}} :
            n \in 0..MaxRows }

\* the survey of the documented scenario: SEXO holds 1, 1, 2, missing, 2 and
\* carries the value labels Hombre and Mujer; every column is labelled
EncuestaCols == <<"Q_2", "SEXO", "Q_60", "Q_1", "Q_75">>

EncuestaValues ==
    [c \in Range(EncuestaCols) |->
        CASE c = "SEXO" -> <<Num(1), Num(1), Num(2), NaN, Num(2)>>
          [] c = "Q_1" -> <<Num(1), Num(2), Str(1), NaN, Num(1)>>
          [] c = "Q_75" -> <<Num(1), Num(2), Num(2), Num(1), NaN>>
          [] OTHER -> <<Num(1), Num(1), Num(1), Num(1), Num(1)>>]

EncuestaMeta ==
    [column_names_to_labels |->
        [c \in Range(EncuestaCols) |->
            CASE c = "Q_2" -> "Felicidad"
              [] c = "SEXO" -> "Sexo"
              [] c = "Q_60" -> "Reciclaje"
              [] c = "Q_1" -> "Satisfaccion"
              [] OTHER -> "Edad"],
     variable_value_labels |-> TheMeta.variable_value_labels]

Encuesta ==
    [df |-> [cols |-> EncuestaCols,
             rows |-> [i \in 1..5 |->
                         [c \in Range(EncuestaCols) |-> EncuestaValues[c][i]]]],
     meta |-> EncuestaMeta]

DataSets ==
    {[df |-> t, meta |-> TheMeta] : t \in UNION {TablesOf(s) : s \in Schemas}}
    \cup {Encuesta}

\* a wide dataset: the age column with k distinct ages, the first one h times
WideTable(k, h) ==
    [cols |-> <<"Q_75">>,
     rows |-> [i \in 1..(k + h - 1) |->
                 [c \in {"Q_75"} |-> Num(IF i <= h THEN 1 ELSE i - h + 1)]]]

WideDataSets ==
    {[df |-> WideTable(k, h), meta |-> TheMeta] : k \in 1..MaxDistinct, h \in 1..2}

\* the versions of the file the deployment switches between
Versions ==
    { Encuesta,
      [df |-> [cols |-> <<"Q_1", "SEXO">>,
               rows |-> << [c \in {"Q_1", "SEXO"} |-> Num(1)],
                           [c \in {"Q_1", "SEXO"} |-> IF c = "Q_1" THEN Str(1) ELSE Num(2)] >>],
       meta |-> TheMeta],
      [df |-> [cols |-> <<"Q_75", "Q_1">>,
               rows |-> << [c \in {"Q_75", "Q_1"} |-> IF c = "Q_1" THEN NaN ELSE Num(2)],
                           [c \in {"Q_75", "Q_1"} |-> Num(2)] >>],
       meta |-> TheMeta] }

QuestionIds == {"Q_1", "Q_75", "SEXO"}

\* the category ids asked for: those of three categories and two that are none
CategoriaArgs == {0, 1, 11, 12, 14}

\* the identifiers handed to get_categoria_for_question: a head, up to
\* MaxDigits digits, a tail
Prefixes ==
    { <<>>, <<"Q", "_">>, <<"T", "_", "Q", "_">>, <<"T", "_">>, <<"Q">>,
      <<"q", "_">>, <<"x", "Q", "_">> }
Suffixes == { <<>>, <<"_">>, <<"_", "1">>, <<"x">>, <<"_", "x", "_">> }
DigitStrings == UNION {[1..k -> Range(Digits)] : k \in 0..MaxDigits}
Identificadores ==
    {p \o d \o x : p \in Prefixes, d \in DigitStrings, x \in Suffixes}
Tipos == {"cantidad", "porcentaje"}
Codes == {1, 2}
ScalarKeys == {simple_filters[k][1] : k \in DOMAIN simple_filters}
PairKeys == {"sexo", "escolaridad"}

\* the age ranges: a dict with any of min and max
EdadDicts ==
    UNION {[ks -> {Some(a) : a \in Codes}] : ks \in SUBSET {"min", "max"}}

\* the dicts with the one key, given as null or as one of values
OneKey(key, values) ==
    {[k \in {key} |-> v] : v \in {None} \cup {Some(x) : x \in values}}

\* the dicts with the two keys, neither null
TwoKeys(key1, values1, key2, values2) ==
    {[k \in {key1, key2} |-> IF k = key1 THEN Some(v1) ELSE Some(v2)] :
        v1 \in values1, v2 \in values2}

\* the requests' filtros: None, the empty dict, the dict with two keys both
\* null, every dict with one key, and the dicts with two keys among PairKeys
\* and edad
Filtros ==
    {None, Some(<<>>), Some([k \in {"sexo", "edad"} |-> None])}
    \cup {Some(f) : f \in UNION {OneKey(key, Codes) : key \in ScalarKeys}}
    \cup {Some(f) : f \in OneKey("edad", EdadDicts)}
    \cup {Some(f) : f \in TwoKeys("sexo", Codes, "escolaridad", Codes)}
    \cup {Some(f) : f \in UNION {TwoKeys(key, Codes, "edad", EdadDicts) : key \in PairKeys}}

(***************************************************************************)
(* The reader's operations, one action per call.                           *)
(***************************************************************************)

\* what a call of load_data leaves in the reader
LoadEffects(r) ==
    /\ r.read => reads < MaxReads
    /\ cached_data' = (IF r.err = None THEN r.pair ELSE cached_data)
    /\ reads' = (IF r.read THEN reads + 1 ELSE reads)
    /\ first' = (IF r.read /\ first = None THEN r.pair ELSE first)

Returned(op, question_id, tipo, filtros, res) ==
    Some([op |-> op, question_id |-> question_id, tipo |-> tipo,
          filtros |-> filtros, err |-> res.err, val |-> res.val,
          filtered_df |-> res.filtered_df,
          filtros_aplicados |-> res.filtros_aplicados])

ReturnedCategoria(categoria_id, res) ==
    Some([op |-> "get_preguntas_by_categoria", categoria_id |-> categoria_id,
          err |-> res.err, val |-> res.val])

\* a faulty handling of a failed load that drops the error
Failed_swallowed(r) ==
    [err |-> None, val |-> None, filtered_df |-> None, filtros_aplicados |-> None]

Failed(r) ==
    [err |-> r.err, val |-> None, filtered_df |-> None, filtros_aplicados |-> None]

Plain(val) ==
    [err |-> None, val |-> Some(val), filtered_df |-> None, filtros_aplicados |-> None]

\* what came back; when load_data raised, with whether it had called read_sav
Calling(r, returned) ==
    IF r.err = None THEN returned
    ELSE Some([called |-> r.called] @@ returned[1])

LoadData ==
    /\ ret = None
    /\ LET r == load_data(cached_data, artifact) IN
         /\ LoadEffects(r)
         /\ ret' = Calling(r, Returned("load_data", "", "", None,
                            IF r.err # None THEN Failed(r) ELSE Plain(r.pair[1])))
    /\ UNCHANGED <<artifact, cached_preguntas, pc, loc, dropped, usuarios>>

\* a faulty load_preguntas that reads the file itself and keeps the catalog
\* only, leaving the table cache as it was
LoadPreguntas_bypassing ==
    /\ ret = None
    /\ IF cached_preguntas # None
       THEN /\ ret' = Returned("load_preguntas", "", "", None, Plain(cached_preguntas[1]))
            /\ UNCHANGED <<cached_data, cached_preguntas, reads, first>>
       ELSE LET r == load_data(cached_data, artifact) IN
            /\ r.read => reads < MaxReads
            /\ reads' = (IF r.read THEN reads + 1 ELSE reads)
            /\ first' = (IF r.read /\ first = None THEN r.pair ELSE first)
            /\ UNCHANGED cached_data
            /\ IF r.err # None
               THEN /\ ret' = Calling(r, Returned("load_preguntas", "", "", None,
                                                  Failed(r)))
                    /\ UNCHANGED cached_preguntas
               ELSE /\ cached_preguntas' = Some(Preguntas(r.pair[1]))
                    /\ ret' = Calling(r, Returned("load_preguntas", "", "", None,
                                                  Plain(Preguntas(r.pair[1]))))
    /\ UNCHANGED <<artifact, pc, loc, dropped, usuarios>>

LoadPreguntas ==
    /\ ret = None
    /\ IF cached_preguntas # None
       THEN /\ ret' = Returned("load_preguntas", "", "", None, Plain(cached_preguntas[1]))
            /\ UNCHANGED <<cached_data, cached_preguntas, reads, first>>
       ELSE LET r == load_data(cached_data, artifact) IN
            /\ LoadEffects(r)
            /\ IF r.err # None
               THEN /\ ret' = Calling(r, Returned("load_preguntas", "", "", None,
                                                  Failed(r)))
                    /\ UNCHANGED cached_preguntas
               ELSE /\ cached_preguntas' = Some(Preguntas(r.pair[1]))
                    /\ ret' = Calling(r, Returned("load_preguntas", "", "", None,
                                                  Plain(Preguntas(r.pair[1]))))
    /\ UNCHANGED <<artifact, pc, loc, dropped, usuarios>>

GetQuestionResponses ==
    /\ ret = None
    /\ \E question_id \in QuestionIds, tipo \in Tipos :
         LET r == load_data(cached_data, artifact) IN
         /\ LoadEffects(r)
         /\ ret' = Calling(r, Returned("get_question_responses", question_id, tipo,
                            None,
                            IF r.err # None THEN Failed(r)
                            ELSE get_question_responses(r.pair[1], question_id, tipo)))
    /\ UNCHANGED <<artifact, cached_preguntas, pc, loc, dropped, usuarios>>

\* the cache holds the frame load_data gave as the filtered query leaves it
GetQuestionResponsesWithFilters ==
    /\ ret = None
    /\ \E question_id \in QuestionIds, tipo \in Tipos, filtros \in Filtros :
         LET r == load_data(cached_data, artifact)
             res == IF r.err # None THEN Failed(r)
                    ELSE get_question_responses_with_filters(
                             r.pair[1], question_id, tipo, filtros)
         IN /\ r.read => reads < MaxReads
            /\ cached_data' = (IF r.err = None
                               THEN Some([r.pair[1] EXCEPT !.df = res.df])
                               ELSE cached_data)
            /\ reads' = (IF r.read THEN reads + 1 ELSE reads)
            /\ first' = (IF r.read /\ first = None THEN r.pair ELSE first)
            /\ ret' = Calling(r, Returned("get_question_responses_with_filters",
                                          question_id, tipo, filtros, res))
    /\ UNCHANGED <<artifact, cached_preguntas, pc, loc, dropped, usuarios>>

\* get_preguntas_by_categoria: the id is validated, then load_preguntas runs
GetPreguntasByCategoria ==
    /\ ret = None
    /\ \E categoria_id \in CategoriaArgs :
         LET found == get_categoria_by_id(categoria_id) IN
         IF found.err # None
         THEN /\ ret' = ReturnedCategoria(categoria_id, found)
              /\ UNCHANGED <<cached_data, cached_preguntas, reads, first>>
         ELSE IF cached_preguntas # None
         THEN /\ ret' = ReturnedCategoria(categoria_id,
                            Plain(OfCategoria(cached_preguntas[1], categoria_id)))
              /\ UNCHANGED <<cached_data, cached_preguntas, reads, first>>
         ELSE LET r == load_data(cached_data, artifact) IN
              /\ LoadEffects(r)
              /\ IF r.err # None
                 THEN /\ ret' = ReturnedCategoria(categoria_id, Failed(r))
                      /\ UNCHANGED cached_preguntas
                 ELSE /\ cached_preguntas' = Some(Preguntas(r.pair[1]))
                      /\ ret' = ReturnedCategoria(categoria_id,
                                    Plain(OfCategoria(Preguntas(r.pair[1]), categoria_id)))
    /\ UNCHANGED <<artifact, pc, loc, dropped, usuarios>>

\* get_categoria_for_question called on an identifier; it reads no state
GetCategoriaForQuestion ==
    /\ ret = None
    /\ \E identificador \in Identificadores :
         ret' = Some([op |-> "get_categoria_for_question",
                      identificador |-> identificador,
                      err |-> None,
                      val |-> get_categoria_for_question(identificador)])
    /\ UNCHANGED <<artifact, cached_data, cached_preguntas, reads, first, pc, loc, dropped, usuarios>>

\* a faulty clear_cache that forgets the catalog cache
ClearCache_keeping_catalog ==
    /\ ret = None
    /\ cached_data' = None
    /\ reads' = 0
    /\ first' = None
    /\ ret' = Returned("clear_cache", "", "", None, Plain(<<>>))
    /\ UNCHANGED <<artifact, cached_preguntas, dropped, pc, loc, usuarios>>

ClearCache ==
    /\ ret = None
    /\ cached_data' = None
    /\ cached_preguntas' = None
    /\ reads' = 0
    /\ first' = None
    /\ dropped' = (IF cached_preguntas # None THEN cached_preguntas ELSE dropped)
    /\ ret' = Returned("clear_cache", "", "", None, Plain(<<>>))
    /\ UNCHANGED <<artifact, pc, loc, usuarios>>

\* the caller takes what the call returned
Return ==
    /\ ret # None
    /\ ret' = None
    /\ UNCHANGED <<artifact, cached_data, cached_preguntas, reads, first, pc, loc, dropped, usuarios>>

\* the deployment replaces, removes or damages the file
ReplaceArtifact ==
    /\ ret = None
    /\ \E status \in {"ok", "missing", "corrupt"}, data \in Versions :
         /\ [status |-> status, data |-> data] # artifact
         /\ artifact' = [status |-> status, data |-> data]
    /\ UNCHANGED <<cached_data, cached_preguntas, reads, first, ret, pc, loc, dropped, usuarios>>

Threads == 1..NThreads

\* the locals of a request thread: the method it runs, the file read_sav is
\* reading, what load_data returned to it, the catalog it built, its outcome
NoLoc == [op |-> "", question_id |-> "", tipo |-> "", snap |-> None,
          pair |-> None, preguntas |-> None, out |-> None]

Idle == [t \in Threads |-> "idle"]
NoLocals == [t \in Threads |-> NoLoc]

\* the calls that read: everything but clear_cache
Queries ==
    \/ LoadData
    \/ LoadPreguntas
    \/ GetQuestionResponses
    \/ GetQuestionResponsesWithFilters
    \/ GetPreguntasByCategoria
    \/ Return

Calls == Queries \/ ClearCache

InitReader ==
    /\ cached_data = None
    /\ cached_preguntas = None
    /\ reads = 0
    /\ first = None
    /\ dropped = None
    /\ usuarios = {}
    /\ ret = None
    /\ pc = Idle
    /\ loc = NoLocals

\* the service with a file the deployment may change under it
Init ==
    /\ artifact \in [status : {"ok", "missing", "corrupt"}, data : Versions]
    /\ InitReader

Next == Calls \/ ReplaceArtifact

Spec == Init /\ [][Next]_vars

\* the service over every enumerated dataset, the file left alone and the
\* cache never cleared (a reload of the same file brings the same table)
InitData ==
    /\ artifact \in [status : {"ok"}, data : DataSets]
    /\ InitReader

SpecData == InitData /\ [][Queries]_vars

\* the service over the wide datasets
InitWide ==
    /\ artifact \in [status : {"ok"}, data : WideDataSets]
    /\ InitReader

SpecWide == InitWide /\ [][Queries]_vars

\* the taxonomy function over the enumerated identifiers
NextTaxonomy == GetCategoriaForQuestion \/ Return

InitTaxonomy ==
    /\ artifact = [status |-> "ok", data |-> Encuesta]
    /\ InitReader

SpecTaxonomy == InitTaxonomy /\ [][NextTaxonomy]_vars

(***************************************************************************)
(* The profile service (services/profile_service.py) over the table        *)
(* usuarios (services/models.py): a set of rows [id, nombre, email,        *)
(* telefono], telefono None or a text.                                     *)
(***************************************************************************)

\* the id SQLite gives a new row: one more than the largest id in the table
NewId(table) ==
    IF table = {} THEN 1
    ELSE 1 + (CHOOSE m \in {u.id : u \in table} : \A u \in table : u.id <= m)

\* a faulty commit against a table without the unique index on email
Commit_unconstrained(table, pending) == [err |-> None, table |-> pending]

\* db.commit() of the session's rows pending over the stored rows table:
\* the unique index on email, and the primary key, reject the flush with
\* IntegrityError and nothing is stored
Commit(table, pending) ==
    IF \E u, v \in pending : u # v /\ (u.email = v.email \/ u.id = v.id)
    THEN [err |-> Some("IntegrityError"), table |-> table]
    ELSE [err |-> None, table |-> pending]

\* db.query(User).filter(User.id == user_id).first()
ById(table, user_id) ==
    IF \E u \in table : u.id = user_id
    THEN Some(CHOOSE u \in table : u.id = user_id)
    ELSE None

\* ProfileService.create_profile: the error raised or the row returned, the
\* table as stored afterwards, and the rows the session holds uncommitted
create_profile(table, nombre, email, telefono) ==
    LET db_user == [id |-> NewId(table), nombre |-> nombre, email |-> email,
                    telefono |-> telefono]
        c == Commit(table, table \cup {db_user})
    IN IF c.err # None
       THEN [err |-> Some("ProfileAlreadyExistsError"), val |-> None,
             table |-> c.table, session |-> None]
       ELSE [err |-> None, val |-> Some(db_user), table |-> c.table, session |-> None]

\* ProfileService.update_profile; an argument that is None changes nothing
update_profile(table, user_id, nombre, email, telefono) ==
    LET found == ById(table, user_id) IN
    IF found = None
    THEN [err |-> Some("ProfileNotFoundError"), val |-> None,
          table |-> table, session |-> None]
    ELSE LET user == found[1]
             named == IF nombre # None THEN [user EXCEPT !.nombre = nombre[1]] ELSE user
         IN IF email # None /\ email[1] # user.email
               /\ (\E u \in table : u.email = email[1])
            THEN [err |-> Some("ProfileAlreadyExistsError"), val |-> None,
                  table |-> table,
                  session |-> Some((table \ {user}) \cup {named})]
            ELSE LET mailed == IF email # None /\ email[1] # user.email
                               THEN [named EXCEPT !.email = email[1]] ELSE named
                     phoned == IF telefono # None
                               THEN [mailed EXCEPT !.telefono = telefono] ELSE mailed
                     c == Commit(table, (table \ {user}) \cup {phoned})
                 IN IF c.err # None
                    THEN [err |-> Some("ProfileAlreadyExistsError"), val |-> None,
                          table |-> c.table, session |-> None]
                    ELSE [err |-> None, val |-> Some(phoned),
                          table |-> c.table, session |-> None]

\* ProfileService.delete_profile
delete_profile(table, user_id) ==
    LET found == ById(table, user_id) IN
    IF found = None
    THEN [err |-> Some("ProfileNotFoundError"), val |-> None,
          table |-> table, session |-> None]
    ELSE [err |-> None, val |-> Some(TRUE), table |-> table \ {found[1]},
          session |-> None]

\* what the requests carry
Nombres == {"Ana", "Luis"}
Emails == {"a@x.org", "b@x.org", "c@x.org"}
Telefonos == {None, Some("555")}
UserIds == 1..MaxProfiles

ReturnedPerfil(op, user_id, nombre, email, telefono, res) ==
    Some([op |-> op, user_id |-> user_id, nombre |-> nombre, email |-> email,
          telefono |-> telefono, err |-> res.err, val |-> res.val,
          session |-> res.session])

\* POST /perfil: the session of the request is closed when the endpoint
\* returns or raises, which discards what it holds uncommitted
CreateProfile ==
    /\ ret = None
    /\ NewId(usuarios) <= MaxProfiles
    /\ \E nombre \in Nombres, email \in Emails, telefono \in Telefonos :
         LET r == create_profile(usuarios, nombre, email, telefono) IN
         /\ usuarios' = r.table
         /\ ret' = ReturnedPerfil("create_profile", 0, Some(nombre), Some(email),
                                  telefono, r)
    /\ UNCHANGED <<artifact, cached_data, cached_preguntas, reads, first, dropped, pc, loc>>

\* PUT /perfil/{user_id}
UpdateProfile ==
    /\ ret = None
    /\ \E user_id \in UserIds,
          nombre \in {None} \cup {Some(x) : x \in Nombres},
          email \in {None} \cup {Some(x) : x \in Emails},
          telefono \in Telefonos :
         LET r == update_profile(usuarios, user_id, nombre, email, telefono) IN
         /\ usuarios' = r.table
         /\ ret' = ReturnedPerfil("update_profile", user_id, nombre, email, telefono, r)
    /\ UNCHANGED <<artifact, cached_data, cached_preguntas, reads, first, dropped, pc, loc>>

\* DELETE /perfil/{user_id}
DeleteProfile ==
    /\ ret = None
    /\ \E user_id \in UserIds :
         LET r == delete_profile(usuarios, user_id) IN
         /\ usuarios' = r.table
         /\ ret' = ReturnedPerfil("delete_profile", user_id, None, None, None, r)
    /\ UNCHANGED <<artifact, cached_data, cached_preguntas, reads, first, dropped, pc, loc>>

NextProfiles == CreateProfile \/ UpdateProfile \/ DeleteProfile \/ Return

\* the profile endpoints over a database init_db has just created
SpecProfiles == InitTaxonomy /\ [][NextProfiles]_vars

(***************************************************************************)
(* The same methods run by the request threads of the worker pool, one     *)
(* step per access to the reader's attributes or to the file.  The reader  *)
(* takes no lock anywhere.                                                 *)
(***************************************************************************)

Goto(t, label) == pc' = [pc EXCEPT ![t] = label]

\* the thread ends its call with the outcome out
Done(t, out) ==
    /\ Goto(t, "done")
    /\ loc' = [loc EXCEPT ![t].out = Some(out)]

\* a request arrives and the thread enters the method
Start(t) ==
    /\ pc[t] = "idle"
    /\ \E op \in {"load_data", "load_preguntas", "get_question_responses", "clear_cache"},
          question_id \in QuestionIds, tipo \in Tipos :
         /\ op # "get_question_responses" => question_id = "Q_1" /\ tipo = "cantidad"
         /\ loc' = [loc EXCEPT ![t] = [NoLoc EXCEPT !.op = op,
                                                    !.question_id = question_id,
                                                    !.tipo = tipo]]
         /\ Goto(t, CASE op = "load_preguntas" -> "lp_check"
                      [] op = "clear_cache" -> "cc_data"
                      [] OTHER -> "load_check")
    /\ UNCHANGED <<artifact, cached_data, cached_preguntas, reads, first, ret, dropped, usuarios>>

\* load_data: if self._cached_data is not None
LoadCheck(t) ==
    /\ pc[t] = "load_check"
    /\ Goto(t, IF cached_data # None THEN "load_hit" ELSE "load_exists")
    /\ UNCHANGED <<artifact, cached_data, cached_preguntas, reads, first, ret, loc, dropped, usuarios>>

\* load_data: return self._cached_data, read again after the test
LoadHit(t) ==
    /\ pc[t] = "load_hit"
    /\ loc' = [loc EXCEPT ![t].pair = cached_data]
    /\ Goto(t, "loaded")
    /\ UNCHANGED <<artifact, cached_data, cached_preguntas, reads, first, ret, dropped, usuarios>>

\* load_data: if not os.path.exists(self._file_path): raise
LoadExists(t) ==
    /\ pc[t] = "load_exists"
    /\ IF artifact.status = "missing"
       THEN Done(t, [err |-> Some("SAVReaderError: Data file not found"), val |-> None])
       ELSE Goto(t, "load_read") /\ UNCHANGED loc
    /\ UNCHANGED <<artifact, cached_data, cached_preguntas, reads, first, ret, dropped, usuarios>>

\* load_data: pyreadstat.read_sav is called and starts reading the file
LoadRead(t) ==
    /\ pc[t] = "load_read"
    /\ reads < MaxReads
    /\ loc' = [loc EXCEPT ![t].snap = Some(artifact)]
    /\ Goto(t, "reading")
    /\ UNCHANGED <<artifact, cached_data, cached_preguntas, reads, first, ret, dropped, usuarios>>

\* load_data: read_sav returns (df, meta) or raises
Reading(t) ==
    /\ pc[t] = "reading"
    /\ IF loc[t].snap[1].status = "corrupt"
       THEN /\ Done(t, [err |-> Some("SAVReaderError: Error reading data file"),
                        val |-> None])
            /\ UNCHANGED <<reads, first>>
       ELSE /\ Goto(t, "load_store")
            /\ reads' = reads + 1
            /\ first' = (IF first = None THEN Some(loc[t].snap[1].data) ELSE first)
            /\ UNCHANGED loc
    /\ UNCHANGED <<artifact, cached_data, cached_preguntas, ret, dropped, usuarios>>

\* load_data: self._cached_data = (df, meta)
LoadStore(t) ==
    /\ pc[t] = "load_store"
    /\ cached_data' = Some(loc[t].snap[1].data)
    /\ Goto(t, "load_ret")
    /\ UNCHANGED <<artifact, cached_preguntas, reads, first, ret, loc, dropped, usuarios>>

\* load_data: return self._cached_data
LoadRet(t) ==
    /\ pc[t] = "load_ret"
    /\ loc' = [loc EXCEPT ![t].pair = cached_data]
    /\ Goto(t, "loaded")
    /\ UNCHANGED <<artifact, cached_data, cached_preguntas, reads, first, ret, dropped, usuarios>>

\* the caller of load_data goes on with what it returned: df, meta = ...
\* fails on None; the rest of the method works on its locals
Loaded(t) ==
    /\ pc[t] = "loaded"
    /\ LET l == loc[t] IN
       IF l.op = "load_data"
       THEN Done(t, [err |-> None, val |-> l.pair])
       ELSE IF l.pair = None
       THEN Done(t, [err |-> Some("TypeError"), val |-> None])
       ELSE IF l.op = "load_preguntas"
       THEN /\ loc' = [loc EXCEPT ![t].preguntas = Some(Preguntas(l.pair[1]))]
            /\ Goto(t, "lp_store")
       ELSE LET res == get_question_responses(l.pair[1], l.question_id, l.tipo) IN
            Done(t, [err |-> res.err, val |-> res.val])
    /\ UNCHANGED <<artifact, cached_data, cached_preguntas, reads, first, ret, dropped, usuarios>>

\* load_preguntas: if self._cached_preguntas is not None
LpCheck(t) ==
    /\ pc[t] = "lp_check"
    /\ Goto(t, IF cached_preguntas # None THEN "lp_hit" ELSE "load_check")
    /\ UNCHANGED <<artifact, cached_data, cached_preguntas, reads, first, ret, loc, dropped, usuarios>>

\* load_preguntas: return self._cached_preguntas, read again after the test
LpHit(t) ==
    /\ pc[t] = "lp_hit"
    /\ Done(t, [err |-> None, val |-> cached_preguntas])
    /\ UNCHANGED <<artifact, cached_data, cached_preguntas, reads, first, ret, dropped, usuarios>>

\* load_preguntas: self._cached_preguntas = preguntas; return preguntas
LpStore(t) ==
    /\ pc[t] = "lp_store"
    /\ cached_preguntas' = loc[t].preguntas
    /\ Done(t, [err |-> None, val |-> loc[t].preguntas])
    /\ UNCHANGED <<artifact, cached_data, reads, first, ret, dropped, usuarios>>

\* clear_cache: self._cached_data = None
CcData(t) ==
    /\ pc[t] = "cc_data"
    /\ cached_data' = None
    /\ reads' = 0
    /\ first' = None
    /\ Goto(t, "cc_preguntas")
    /\ UNCHANGED <<artifact, cached_preguntas, ret, loc, dropped, usuarios>>

\* clear_cache: self._cached_preguntas = None
CcPreguntas(t) ==
    /\ pc[t] = "cc_preguntas"
    /\ cached_preguntas' = None
    /\ dropped' = (IF cached_preguntas # None THEN cached_preguntas ELSE dropped)
    /\ Done(t, [err |-> None, val |-> None])
    /\ UNCHANGED <<artifact, cached_data, reads, first, ret, usuarios>>

\* the response is sent and the thread goes back to the pool
Finish(t) ==
    /\ pc[t] = "done"
    /\ Goto(t, "idle")
    /\ loc' = [loc EXCEPT ![t] = NoLoc]
    /\ UNCHANGED <<artifact, cached_data, cached_preguntas, reads, first, ret, dropped, usuarios>>

NextConc ==
    \E t \in Threads :
        \/ Start(t)
        \/ LoadCheck(t)
        \/ LoadHit(t)
        \/ LoadExists(t)
        \/ LoadRead(t)
        \/ Reading(t)
        \/ LoadStore(t)
        \/ LoadRet(t)
        \/ Loaded(t)
        \/ LpCheck(t)
        \/ LpHit(t)
        \/ LpStore(t)
        \/ CcData(t)
        \/ CcPreguntas(t)
        \/ Finish(t)

SpecConc == Init /\ [][NextConc]_vars

(***************************************************************************)
(* Properties.                                                             *)
(***************************************************************************)

\* the call that has just returned is a distribution query
IsQuery == ret # None /\ ret[1].op \in {"get_question_responses",
                                        "get_question_responses_with_filters"}
IsFiltered == ret # None /\ ret[1].op = "get_question_responses_with_filters"

\* a distribution query has just returned its result dict
Answered == IsQuery /\ ret[1].err = None

\* the table the query ran on, its rows' labels, and what the query kept
TheDf == cached_data[1].df
AllRows == 1..Len(TheDf.rows)
Kept == IF IsFiltered THEN Range(ret[1].filtered_df[1]) ELSE AllRows
Entries == ret[1].val[1].respuestas
Total == ret[1].val[1].total_respuestas

Abs(x) == IF x < 0 THEN -x ELSE x

\* the column each recognized key is bound to
BoundColumn(key) ==
    CASE key = "calidad_vida" -> "CALIDAD_VIDA"
      [] key = "municipio" -> "Q_94"
      [] key = "sexo" -> "SEXO"
      [] key = "escolaridad" -> "ESC"
      [] key = "nse" -> "NSE2024_C"
      [] key = "edad" -> "Q_75"

\* the keys a filtros argument requests: present and not null
Requested(filtros) ==
    IF filtros = None THEN {}
    ELSE {k \in DOMAIN filtros[1] : filtros[1][k] # None}

\* the rows of df one requested key selects, read off the table
Selects(df, key, value) ==
    IF BoundColumn(key) \notin Range(df.cols) THEN 1..Len(df.rows)
    ELSE {i \in 1..Len(df.rows) :
            LET cell == df.rows[i][BoundColumn(key)] IN
            IF key = "edad"
            THEN /\ ("min" \in DOMAIN value /\ value["min"] # None)
                      => (cell.kind = "num" /\ cell.v >= value["min"][1])
                 /\ ("max" \in DOMAIN value /\ value["max"] # None)
                      => (cell.kind = "num" /\ cell.v <= value["max"][1])
            ELSE cell.kind = "num" /\ cell.v = value}

\* C1: without a clear_cache in between, the file is read at most once and
\* every load_data returns the pair that first read produced, whatever has
\* happened to the file since
C1_LoadOnce ==
    /\ reads <= 1
    /\ (ret # None /\ ret[1].op = "load_data" /\ ret[1].err = None)
          => (first # None /\ ret[1].val = first /\ cached_data = first)

\* a load_data answered from the cache after the file was replaced
C1_Witness ==
    /\ ret # None /\ ret[1].op = "load_data" /\ ret[1].err = None
    /\ reads = 1
    /\ artifact.status = "ok" /\ Some(artifact.data) # first

\* C2: at most one read of the file is in flight at any time
C2_OneReadInFlight ==
    Cardinality({t \in Threads : pc[t] = "reading"}) <= 1

\* a thread has found the catalog cache filled and is about to return it
ReturnsCachedCatalog(t) == pc[t] = "lp_hit" /\ cached_preguntas # None
HalfCleared == cached_data = None /\ cached_preguntas # None

\* C3: no load_preguntas returns the cached catalog while the table cache is
\* cleared and the catalog cache still filled, and outside a running
\* clear_cache the catalog cache is never filled over an empty table cache
C3_ClearIsExclusive ==
    /\ \A t \in Threads : ReturnsCachedCatalog(t) => ~HalfCleared
    /\ (\A t \in Threads : pc[t] # "cc_preguntas") => ~HalfCleared

\* C4: a query for an identifier that is no column of the loaded table fails
\* with QuestionNotFound and produces neither a distribution nor applied
\* filters, whatever the mode and the filters
C4_QuestionNotFound ==
    (IsQuery /\ cached_data # None
       /\ ret[1].question_id \notin Range(TheDf.cols))
    => /\ ret[1].err = Some("QuestionNotFoundError")
       /\ ret[1].val = None
       /\ ret[1].filtros_aplicados = None

\* an unknown identifier asked with a filter that applies to the table
C4_Witness ==
    /\ IsFiltered /\ cached_data # None
    /\ ret[1].question_id \notin Range(TheDf.cols)
    /\ ret[1].err = Some("QuestionNotFoundError")
    /\ Requested(ret[1].filtros) = {"sexo"}
    /\ "SEXO" \in Range(TheDf.cols)
    /\ Len(TheDf.rows) > 0

\* the rows the query kept whose target cell is not missing
Valid == {i \in Kept : TheDf.rows[i][ret[1].question_id].kind # "nan"}

\* C5: total_respuestas is the number of kept rows whose target cell is not
\* missing; it is not negative and not more than the rows kept
C5_Total ==
    Answered => /\ Total = Cardinality(Valid)
                /\ 0 <= Total
                /\ Total <= Cardinality(Kept)

\* a filter applied, and some but not all kept rows are missing the target
C5_Witness ==
    /\ Answered /\ IsFiltered
    /\ DOMAIN ret[1].filtros_aplicados[1] # {}
    /\ 0 < Total /\ Total < Cardinality(Kept)

\* C6: in count mode the metrics add up to total_respuestas
C6_CountSum ==
    (Answered /\ ret[1].tipo = "cantidad")
    => SumSeq([i \in DOMAIN Entries |-> Entries[i].metric]) = Total

\* a count distribution with two groups
C6_Witness ==
    /\ Answered /\ ret[1].tipo = "cantidad"
    /\ Len(Entries) = 2 /\ Total = 2

PctSum == SumSeq([i \in DOMAIN Entries |-> Entries[i].metric])

\* C7 as stated: in percentage mode with a positive total the metrics add up
\* to 100 within 0.1, whatever the number of groups (metrics in hundredths)
C7_Within01 ==
    (Answered /\ ret[1].tipo = "porcentaje" /\ Total > 0)
    => Abs(PctSum - 10000) <= 10

\* C7 amended: the sum is off 100 by at most 0.005 for each group
C7_WithinHalfPerGroup ==
    (Answered /\ ret[1].tipo = "porcentaje" /\ Total > 0)
    => 2 * Abs(PctSum - 10000) <= Len(Entries)

\* 31 ages once each: 31 groups of 3.23 add up to 100.13
C7_Witness ==
    /\ Answered /\ ret[1].tipo = "porcentaje"
    /\ Len(Entries) = 31 /\ Total = 31
    /\ PctSum = 10013

\* C8: the groups come with the numbers first, ascending, then the texts,
\* ascending
C8_Ordered ==
    Answered =>
      \A i, j \in DOMAIN Entries :
         i < j =>
           LET a == Entries[i].valor
               b == Entries[j].valor
           IN IF a.kind = "str"
              THEN b.kind = "str" /\ a.v < b.v
              ELSE b.kind = "str" \/ a.v < b.v

\* a number before a text, from a table whose first row holds the text
C8_Witness ==
    /\ Answered /\ Len(Entries) = 2
    /\ Entries[1].valor.kind = "num" /\ Entries[2].valor.kind = "str"
    /\ TheDf.rows[1][ret[1].question_id].kind = "str"

\* the row labels of the view filtros leaves of the view st
RowsAfter(df, st, filtros) == Range(ApplyFilters(df, st, filtros).idx)

\* the requests with one key, not null
OneKeyFiltros == {f \in Filtros : f # None /\ Cardinality(Requested(f)) = 1}

\* C9: two filters applied one after the other keep the same rows in either
\* order, and the rows a query keeps are those every requested filter selects
C9_Commutative ==
    /\ (ret = None /\ cached_data # None) =>
          \A a, b \in OneKeyFiltros :
             RowsAfter(TheDf, ApplyFilters(TheDf, Unfiltered(TheDf), a), b)
               = RowsAfter(TheDf, ApplyFilters(TheDf, Unfiltered(TheDf), b), a)
    /\ (Answered /\ IsFiltered) =>
          Kept = {i \in AllRows :
                    \A k \in Requested(ret[1].filtros) :
                       i \in Selects(TheDf, k, ret[1].filtros[1][k][1])}

\* two applied filters that keep one of two rows, each of which one of the
\* two filters alone would keep
C9_Witness ==
    /\ Answered /\ IsFiltered
    /\ Cardinality(DOMAIN ret[1].filtros_aplicados[1]) = 2
    /\ Cardinality(AllRows) = 2 /\ Cardinality(Kept) = 1
    /\ \A i \in AllRows : \E k \in Requested(ret[1].filtros) :
          i \in Selects(TheDf, k, ret[1].filtros[1][k][1])

\* filtros without the key k
Without(filtros, k) == Some([x \in DOMAIN filtros[1] \ {k} |-> filtros[1][x]])

\* the requested keys whose column the table lacks
Inapplicable ==
    {k \in Requested(ret[1].filtros) : BoundColumn(k) \notin Range(TheDf.cols)}

\* C10: a requested key whose column the table lacks raises nothing, removes
\* no row and is not reported as applied
C10_MissingColumnSkipped ==
    (IsFiltered /\ cached_data # None
       /\ ret[1].question_id \in Range(TheDf.cols))
    => /\ ret[1].err = None
       /\ \A k \in Inapplicable :
            /\ k \notin DOMAIN ret[1].filtros_aplicados[1]
            /\ Kept = RowsAfter(TheDf, Unfiltered(TheDf), Without(ret[1].filtros, k))

\* an age range asked of a table without Q_75, beside a filter that applies
C10_Witness ==
    /\ Answered /\ IsFiltered
    /\ "edad" \in Inapplicable
    /\ DOMAIN ret[1].filtros_aplicados[1] = {"sexo"}
    /\ Cardinality(AllRows) = 2 /\ Cardinality(Kept) = 1

\* the filtros of the query that has just returned, as a dict
TheFiltros == ret[1].filtros[1]
Applied == ret[1].filtros_aplicados[1]

\* C11: a scalar key requested with the value v whose column the table has
\* keeps only rows whose cell in that column equals v, and exactly those rows
\* when it is the only key requested; the key is reported as applied with v.
\* On the documented survey {sexo: 1} keeps the first two rows only
C11_ScalarFilter ==
    (Answered /\ IsFiltered) =>
      /\ \A k \in Requested(ret[1].filtros) \ {"edad"} :
            BoundColumn(k) \in Range(TheDf.cols) =>
              LET v == TheFiltros[k][1]
                  equal == {i \in AllRows : TheDf.rows[i][BoundColumn(k)] = Num(v)}
              IN /\ Kept \subseteq equal
                 /\ Requested(ret[1].filtros) = {k} => Kept = equal
                 /\ k \in DOMAIN Applied
                 /\ Applied[k] = Some(v)
      /\ (cached_data = Some(Encuesta) /\ Requested(ret[1].filtros) = {"sexo"}
            /\ TheFiltros["sexo"] = Some(1))
          => Kept = {1, 2}

\* {sexo: 1} asked of the documented survey: the rows holding 2 and the row
\* missing SEXO are gone
C11_Witness ==
    /\ Answered /\ IsFiltered
    /\ cached_data = Some(Encuesta)
    /\ Requested(ret[1].filtros) = {"sexo"}
    /\ DOMAIN TheFiltros = {"sexo"} /\ TheFiltros["sexo"] = Some(1)
    /\ Kept = {1, 2}
    /\ DOMAIN Applied = {"sexo"} /\ Applied["sexo"] = Some(1)

\* C12: an age range asked alone keeps exactly the rows whose Q_75 lies
\* between the bounds given, both ends included: both bounds, only min, or
\* only max; a table without Q_75 loses no row and edad is not reported
C12_AgeFilter ==
    (Answered /\ IsFiltered /\ Requested(ret[1].filtros) = {"edad"}) =>
      LET range == TheFiltros["edad"][1]
          age(i) == TheDf.rows[i]["Q_75"]
      IN IF "Q_75" \notin Range(TheDf.cols)
         THEN Kept = AllRows /\ "edad" \notin DOMAIN Applied
         ELSE /\ DOMAIN range = {"min", "max"} =>
                   Kept = {i \in AllRows : /\ age(i).kind = "num"
                                           /\ range["min"][1] <= age(i).v
                                           /\ age(i).v <= range["max"][1]}
              /\ DOMAIN range = {"min"} =>
                   Kept = {i \in AllRows : /\ age(i).kind = "num"
                                           /\ age(i).v >= range["min"][1]}
              /\ DOMAIN range = {"max"} =>
                   Kept = {i \in AllRows : /\ age(i).kind = "num"
                                           /\ age(i).v <= range["max"][1]}

\* the ages 1 to 2 asked of the documented survey: the rows at either bound
\* stay, the row missing its age goes
C12_Witness ==
    /\ Answered /\ IsFiltered
    /\ cached_data = Some(Encuesta)
    /\ Requested(ret[1].filtros) = {"edad"}
    /\ DOMAIN TheFiltros["edad"][1] = {"min", "max"}
    /\ TheFiltros["edad"][1]["min"] = Some(1)
    /\ TheFiltros["edad"][1]["max"] = Some(2)
    /\ Kept = {1, 2, 3, 4}
    /\ DOMAIN Applied = {"edad"}

\* C13: with filtros None, empty, or holding null values only, the filtered
\* query answers as get_question_responses does (the same result dict or the
\* same error) and reports an empty filtros_aplicados; the result of
\* get_question_responses has no filtros_aplicados
C13_NoFilterIsIdentity ==
    /\ (IsFiltered /\ cached_data # None /\ Requested(ret[1].filtros) = {}) =>
          LET plain == get_question_responses(cached_data[1], ret[1].question_id,
                                              ret[1].tipo)
          IN /\ ret[1].err = plain.err
             /\ ret[1].val = plain.val
             /\ ret[1].err = None => ret[1].filtros_aplicados = Some(<<>>)
    /\ (ret # None /\ ret[1].op = "get_question_responses")
          => ret[1].filtros_aplicados = None

\* sexo and edad both given as null on a table that has both columns and
\* two answered rows
C13_Witness ==
    /\ Answered /\ IsFiltered
    /\ ret[1].filtros # None
    /\ DOMAIN TheFiltros = {"sexo", "edad"}
    /\ Requested(ret[1].filtros) = {}
    /\ {"SEXO", "Q_75"} \subseteq Range(TheDf.cols)
    /\ Total = 2 /\ Len(Entries) = 2
    /\ ret[1].filtros_aplicados = Some(<<>>)

\* the distribution the documented survey gives for SEXO
SexoEntries(tipo, hombres, mujeres) ==
    << [valor |-> Num(1), etiqueta |-> "Hombre", key |-> tipo, metric |-> hombres],
       [valor |-> Num(2), etiqueta |-> "Mujer", key |-> tipo, metric |-> mujeres] >>

\* C14: the distribution has exactly one entry for each distinct value the
\* kept rows hold in the column, the missing marker aside; in count mode the
\* metric is the number of kept rows holding the value; the label is the one
\* the value labels give for the value, else the value's string form.  On
\* the documented survey SEXO gives Hombre 2 and Mujer 2 of 4, 50.0 each
C14_Distribution ==
    Answered =>
      LET col == ret[1].question_id
          held == {TheDf.rows[r][col] : r \in Kept} \ {NaN}
          labels == Get(cached_data[1].meta.variable_value_labels, col, <<>>)
      IN /\ {Entries[i].valor : i \in DOMAIN Entries} = held
         /\ Len(Entries) = Cardinality(held)
         /\ \A i \in DOMAIN Entries :
               LET e == Entries[i]
                   n == Cardinality({r \in Kept : TheDf.rows[r][col] = e.valor})
                   given == {j \in DOMAIN labels : labels[j][1] = e.valor}
               IN /\ e.key = ret[1].tipo
                  /\ ret[1].tipo = "cantidad" => e.metric = n
                  /\ IF given = {} THEN e.etiqueta = StrOf(e.valor)
                     ELSE \E j \in given : e.etiqueta = labels[j][2]
         /\ (cached_data = Some(Encuesta) /\ col = "SEXO"
               /\ Requested(ret[1].filtros) = {})
            => /\ Total = 4
               /\ Entries = IF ret[1].tipo = "cantidad"
                            THEN SexoEntries("cantidad", 2, 2)
                            ELSE SexoEntries("porcentaje", 5000, 5000)

\* SEXO of the documented survey asked in percentages, unfiltered
C14_Witness ==
    /\ Answered /\ ret[1].op = "get_question_responses"
    /\ cached_data = Some(Encuesta)
    /\ ret[1].question_id = "SEXO" /\ ret[1].tipo = "porcentaje"
    /\ Entries = SexoEntries("porcentaje", 5000, 5000)
    /\ Total = 4

\* a value without a label, reported under its string form
C14_WitnessUnlabelled ==
    /\ Answered /\ ret[1].question_id = "Q_75"
    /\ Len(Entries) = 2 /\ Entries[1].etiqueta = "1.0" /\ Entries[2].etiqueta = "2.0"

\* what load_data raises when the file is missing
RaisedOnMissing ==
    load_data(None, [status |-> "missing", data |-> artifact.data]).err[1]

\* C15: the error load_data raises for a file that cannot be parsed is of
\* another kind than the one it raises for a missing file: some except
\* clause catches one and not the other
C15_DistinctKinds ==
    (ret # None /\ ret[1].op = "load_data" /\ ret[1].err # None
       /\ artifact.status = "corrupt")
    => Bases(ErrorType(ret[1].err[1])) # Bases(ErrorType(RaisedOnMissing))

\* out lists, in the order of catalog, exactly the questions of catalog whose
\* category has the id categoria_id
IsSelection(out, catalog, categoria_id) ==
    \E f \in [DOMAIN out -> DOMAIN catalog] :
        /\ \A i, j \in DOMAIN out : i < j => f[i] < f[j]
        /\ \A i \in DOMAIN out : out[i] = catalog[f[i]]
        /\ {f[i] : i \in DOMAIN out}
             = {j \in DOMAIN catalog : catalog[j].categoria = Some(categoria_id)}

\* C16: get_preguntas_by_categoria called with an id that is none of the
\* taxonomy fails with CategoryNotFoundError and leaves both caches and the
\* file alone, whatever the state of the file; called with a known id it
\* returns, when it returns, the questions of the catalog with that category
\* id in catalog order
C16_ValidatesFirst ==
    [][ (ret = None /\ ret' # None /\ ret'[1].op = "get_preguntas_by_categoria") =>
          LET call == ret'[1] IN
          IF call.categoria_id \notin CategoriaIds
          THEN /\ call.err = Some("CategoryNotFoundError")
               /\ call.val = None
               /\ UNCHANGED <<cached_data, cached_preguntas, reads>>
          ELSE call.err = None =>
                 /\ cached_preguntas' # None
                 /\ IsSelection(call.val[1], cached_preguntas'[1], call.categoria_id)
      ]_vars

\* an unknown id asked while the file is missing and nothing is cached
C16_Witness ==
    /\ ret # None /\ ret[1].op = "get_preguntas_by_categoria"
    /\ ret[1].categoria_id = 14
    /\ ret[1].err = Some("CategoryNotFoundError")
    /\ artifact.status = "missing"
    /\ cached_data = None /\ cached_preguntas = None /\ reads = 0

\* category 1 of the documented survey: Q_2 and Q_1, which the catalog holds
\* in that order with other questions in between
C16_WitnessKnown ==
    /\ ret # None /\ ret[1].op = "get_preguntas_by_categoria"
    /\ ret[1].categoria_id = 1 /\ ret[1].err = None
    /\ Len(ret[1].val[1]) = 2
    /\ ret[1].val[1][1].identificador = "Q_2"
    /\ ret[1].val[1][2].identificador = "Q_1"
    /\ Len(cached_preguntas[1]) = 5

\* load_preguntas has just returned a catalog
Catalogued == ret # None /\ ret[1].op = "load_preguntas" /\ ret[1].err = None

\* C17: the catalog load_preguntas returns holds one question for each
\* column of the table that has a label that is not empty, and no other, in
\* the order of the columns; a question's opciones are the entries of the
\* column's value labels in their own order, and empty when it has none
C17_Catalog ==
    Catalogued =>
      LET catalog == ret[1].val[1]
          cols == TheDf.cols
          column_labels == cached_data[1].meta.column_names_to_labels
          value_labels == cached_data[1].meta.variable_value_labels
          labelled == {k \in DOMAIN cols : /\ cols[k] \in DOMAIN column_labels
                                           /\ column_labels[cols[k]] # ""}
      IN \E f \in [DOMAIN catalog -> DOMAIN cols] :
            /\ \A i, j \in DOMAIN catalog : i < j => f[i] < f[j]
            /\ {f[i] : i \in DOMAIN catalog} = labelled
            /\ \A i \in DOMAIN catalog :
                  LET column == cols[f[i]] IN
                  /\ catalog[i].identificador = column
                  /\ catalog[i].pregunta = column_labels[column]
                  /\ IF column \in DOMAIN value_labels
                     THEN /\ Len(catalog[i].opciones) = Len(value_labels[column])
                          /\ \A j \in DOMAIN value_labels[column] :
                                /\ catalog[i].opciones[j].valor = value_labels[column][j][1]
                                /\ catalog[i].opciones[j].etiqueta = value_labels[column][j][2]
                     ELSE catalog[i].opciones = <<>>

\* a table with an empty label, an unlabelled column and two questions, the
\* first without value labels, the second with its two options in the order
\* of the metadata
C17_Witness ==
    /\ Catalogued
    /\ TheDf.cols = <<"SEXO", "ESC", "Q_75", "Q_1">>
    /\ Len(ret[1].val[1]) = 2
    /\ ret[1].val[1][1].identificador = "Q_75" /\ ret[1].val[1][1].opciones = <<>>
    /\ ret[1].val[1][2].identificador = "Q_1"
    /\ ret[1].val[1][2].opciones = << [valor |-> Num(2), etiqueta |-> "Mucho"],
                                      [valor |-> Num(1), etiqueta |-> "Poco"] >>

\* the question numbers of the thirteen rules, in declared order
RuleSets ==
    << 1..5, 6..13, 14..21, 22..31, {32}, 33..34, {35}, 36..37, 38..43, 44..53,
       (54..56) \cup {60}, 57..66, 67..73 >>

RECURSIVE Pow10(_)
Pow10(n) == IF n = 0 THEN 1 ELSE 10 * Pow10(n - 1)

\* get_categoria_for_question has just returned
Categorized == ret # None /\ ret[1].op = "get_categoria_for_question"

\* the ways to read id as Q_ or T_Q_, then k digits, then the end or "_"
Shapes(id) ==
    {sh \in {<<"Q", "_">>, <<"T", "_", "Q", "_">>} \X (1..Len(id)) :
        LET h == sh[1]
            k == sh[2]
        IN /\ Len(id) >= Len(h) + k
           /\ SubSeq(id, 1, Len(h)) = h
           /\ \A j \in 1..k : IsDigit(id[Len(h) + j])
           /\ (Len(id) = Len(h) + k \/ id[Len(h) + k + 1] = "_")}

\* the number an identifier read as sh embeds
Embedded(id, sh) ==
    SumSeq([j \in 1..sh[2] |-> DigitValue(id[Len(sh[1]) + j]) * Pow10(sh[2] - j)])

\* C19: get_categoria_for_question raises nothing and returns at most one
\* category: for an identifier of the shape Q_<n> or T_Q_<n>, with or
\* without a tail after "_", the category of the first rule in declared
\* order that holds n (60 gets category 11, not 12); null for an identifier
\* of another shape and for a number no rule holds
C19_FirstRuleWins ==
    Categorized =>
      LET id == ret[1].identificador
          val == ret[1].val
      IN /\ ret[1].err = None
         /\ Cardinality(Shapes(id)) <= 1
         /\ IF Shapes(id) = {} THEN val = None
            ELSE LET number == Embedded(id, CHOOSE sh \in Shapes(id) : TRUE)
                     holding == {r \in DOMAIN RuleSets : number \in RuleSets[r]}
                 IN /\ IF holding = {} THEN val = None
                       ELSE /\ val # None
                            /\ val[1] \in holding
                            /\ \A r \in holding : val[1] <= r
                    /\ number = 60 => val = Some(11)

\* T_Q_60_1, which the rules of categories 11 and 12 both hold
C19_Witness ==
    /\ Categorized
    /\ ret[1].identificador = <<"T", "_", "Q", "_", "6", "0", "_", "1">>
    /\ ret[1].val = Some(11)

\* Q_74, beyond the last rule, and xQ_60, of another shape
C19_WitnessNull ==
    /\ Categorized
    /\ ret[1].identificador \in {<<"Q", "_", "7", "4">>, <<"x", "Q", "_", "6", "0">>}
    /\ ret[1].val = None

\* C18: a load_preguntas that finds the catalog cached returns it and
\* neither reads the file nor touches the caches; clear_cache empties both
\* caches, and a load_preguntas that finds no catalog cached returns, when
\* it returns, the catalog computed from the table now cached, which it has
\* read from the file as it is now whenever no table was cached
C18_CatalogPerLoad ==
    [][ /\ (ret = None /\ ret' # None /\ ret'[1].op = "load_preguntas") =>
             IF cached_preguntas # None
             THEN /\ ret'[1].err = None
                  /\ ret'[1].val = cached_preguntas
                  /\ UNCHANGED <<cached_data, cached_preguntas, reads>>
             ELSE ret'[1].err = None =>
                    /\ cached_data' # None
                    /\ ret'[1].val = Some(Preguntas(cached_data'[1]))
                    /\ cached_preguntas' = ret'[1].val
                    /\ cached_data = None =>
                          /\ reads' = reads + 1
                          /\ cached_data' = Some(artifact.data)
        /\ (ret = None /\ ret' # None /\ ret'[1].op = "clear_cache") =>
             cached_data' = None /\ cached_preguntas' = None
      ]_vars

\* after a clear_cache that discarded a catalog and a change of the file,
\* load_preguntas has read the new file and returned another catalog
C18_Witness ==
    /\ Catalogued
    /\ dropped # None /\ ret[1].val # dropped
    /\ reads = 1
    /\ ret[1].val = Some(Preguntas(artifact.data))
    /\ cached_preguntas = ret[1].val

\* a distribution query returns
QueryReturns ==
    /\ ret = None /\ ret' # None
    /\ ret'[1].op \in {"get_question_responses", "get_question_responses_with_filters"}

\* what the query that returns would have answered on the table as loaded
AsIfFirst ==
    IF ret'[1].op = "get_question_responses"
    THEN get_question_responses(first'[1], ret'[1].question_id, ret'[1].tipo)
    ELSE get_question_responses_with_filters(first'[1], ret'[1].question_id,
                                             ret'[1].tipo, ret'[1].filtros)

\* C20: a distribution query, filtered or not, leaves the cached table as
\* it found it, which is the table as it was loaded, and answers what it
\* would have answered as the first query after the load
C20_FilteringLeavesTable ==
    [][ QueryReturns =>
          /\ cached_data # None => cached_data' = cached_data
          /\ cached_data' # None => cached_data' = first'
          /\ cached_data' # None =>
                /\ ret'[1].err = AsIfFirst.err
                /\ ret'[1].val = AsIfFirst.val
      ]_vars

\* a filtered query has dropped one of two rows and the cache holds both
C20_Witness ==
    /\ Answered /\ IsFiltered
    /\ DOMAIN Applied # {}
    /\ Cardinality(Kept) = 1
    /\ cached_data = first
    /\ Len(cached_data[1].df.rows) = 2

(***************************************************************************)
(* C21: after any sequence of create_profile, update_profile and           *)
(* delete_profile calls no two stored profiles have the same email; a      *)
(* create_profile with an email already stored, and an update_profile      *)
(* changing a profile's email to the one stored for another profile, fail  *)
(* with ProfileAlreadyExistsError and leave the stored profiles unchanged. *)
(***************************************************************************)
IsProfileCall(r, op) == r # None /\ r[1].op = op

EmailTaken(table, email, user_id) ==
    \E u \in table : u.email = email /\ u.id # user_id

C21_UniqueEmails ==
    [][ /\ \A u, v \in usuarios' : u.email = v.email => u = v
        /\ ( /\ ret = None
              /\ IsProfileCall(ret', "create_profile")
              /\ EmailTaken(usuarios, ret'[1].email[1], 0) )
           => /\ ret'[1].err = Some("ProfileAlreadyExistsError")
              /\ usuarios' = usuarios
        /\ ( /\ ret = None
              /\ IsProfileCall(ret', "update_profile")
              /\ ret'[1].email # None
              /\ ById(usuarios, ret'[1].user_id) # None
              /\ EmailTaken(usuarios, ret'[1].email[1], ret'[1].user_id) )
           => /\ ret'[1].err = Some("ProfileAlreadyExistsError")
              /\ usuarios' = usuarios ]_vars

\* an update refused for its email after it had renamed the profile in the session
C21_Witness ==
    /\ IsProfileCall(ret, "update_profile")
    /\ ret[1].err = Some("ProfileAlreadyExistsError")
    /\ ret[1].session # None
    /\ ret[1].session[1] # usuarios
    /\ Cardinality(usuarios) >= 2
    /\ EmailTaken(usuarios, ret[1].email[1], ret[1].user_id)

\* a create refused for an email already stored
C21_WitnessCreate ==
    /\ IsProfileCall(ret, "create_profile")
    /\ ret[1].err = Some("ProfileAlreadyExistsError")
    /\ EmailTaken(usuarios, ret[1].email[1], 0)

(***************************************************************************)
(* C22: total_respuestas is 0 exactly when the list of entries is empty,   *)
(* and every entry stands for at least one kept row with that value; so    *)
(* no entry is computed by the branch that gives 0 for a total of 0.       *)
(***************************************************************************)
CountOf(valor) ==
    Cardinality({i \in Valid : TheDf.rows[i][ret[1].question_id] = valor})

C22_NoEmptyGroup ==
    Answered =>
        /\ (Total = 0) <=> (Entries = <<>>)
        /\ \A i \in DOMAIN Entries :
              /\ CountOf(Entries[i].valor) >= 1
              /\ Total > 0
              /\ Entries[i].metric =
                    IF ret[1].tipo = "porcentaje"
                    THEN Round2(CountOf(Entries[i].valor), Total)
                    ELSE CountOf(Entries[i].valor)

\* a percentage query whose filters kept rows, all of them missing the target
C22_Witness ==
    /\ Answered /\ IsFiltered
    /\ ret[1].tipo = "porcentaje"
    /\ Kept # {}
    /\ Total = 0 /\ Entries = <<>>

\* a percentage query with an entry that stands for a single row
C22_WitnessSingle ==
    /\ Answered
    /\ ret[1].tipo = "porcentaje"
    /\ \E i \in DOMAIN Entries : CountOf(Entries[i].valor) = 1 /\ Total = 2

(***************************************************************************)
(* C23: in a sequential run of load_data, load_preguntas, the queries,     *)
(* clear_cache and failing loads, whenever the catalog cache is filled the *)
(* table cache is filled too and the cached catalog is the catalog derived *)
(* from the cached table and metadata.                                     *)
(***************************************************************************)
C23_CatalogFollowsTable ==
    cached_preguntas # None =>
        /\ cached_data # None
        /\ cached_preguntas[1] = Preguntas(cached_data[1])

\* the catalog is cached, the file has since been replaced by one with
\* another catalog or has gone, and a call has been answered from the caches
C23_Witness ==
    /\ cached_preguntas # None
    /\ cached_data # None
    /\ \/ artifact.status # "ok"
       \/ Preguntas(artifact.data) # cached_preguntas[1]
    /\ ret # None /\ ret[1].op \in {"load_preguntas", "get_question_responses"}
    /\ ret[1].err \in {None, Some("QuestionNotFoundError")}

(***************************************************************************)
(* C24: a load_data that fails (file missing or unreadable) attempts the   *)
(* read at most once, raises its error to the caller, also through         *)
(* load_preguntas and both queries, and leaves both caches empty; the      *)
(* failure is not cached: a call made once the file is readable reads it   *)
(* and succeeds.                                                           *)
(***************************************************************************)
IsLoading(r) ==
    r # None /\ r[1].op \in {"load_data", "load_preguntas", "get_question_responses",
                             "get_question_responses_with_filters"}

\* the error load_data raises for a file in that state
LoadError(status) ==
    IF status = "missing" THEN Some("SAVReaderError: Data file not found")
    ELSE Some("SAVReaderError: Error reading data file")

C24_FailureNotCached ==
    [][ (ret = None /\ IsLoading(ret') /\ cached_data = None
         /\ cached_preguntas = None)
        => /\ artifact.status # "ok"
              => /\ ret'[1].err = LoadError(artifact.status)
                 /\ ret'[1].val = None
                 /\ ret'[1].called = (artifact.status = "corrupt")
                 /\ reads' = reads
                 /\ cached_data' = None
                 /\ cached_preguntas' = None
           /\ artifact.status = "ok"
              => /\ ret'[1].err \notin {LoadError("missing"), LoadError("corrupt")}
                 /\ reads' = reads + 1
                 /\ cached_data' = Some(artifact.data) ]_vars

\* a filtered query has failed on an unreadable file it tried to read
C24_Witness ==
    /\ ret # None /\ ret[1].op = "get_question_responses_with_filters"
    /\ ret[1].err = LoadError("corrupt")
    /\ ret[1].called
    /\ artifact.status = "corrupt"
    /\ cached_data = None /\ cached_preguntas = None

\* load_preguntas has read a file that became readable after the caches were
\* emptied
C24_WitnessRetry ==
    /\ ret # None /\ ret[1].op = "load_preguntas"
    /\ ret[1].err = None /\ reads = 1
    /\ dropped # None
    /\ cached_data = Some(artifact.data)

(***************************************************************************)
(* C25: filtros_aplicados has a key only if that filter restricted the     *)
(* rows by a predicate: the key was requested, its column is in the table, *)
(* and an edad range reported as applied gives a min or a max; an edad     *)
(* range with neither removes no row and is not reported.                  *)
(***************************************************************************)
HasBound(edad_filter) == \E k \in DOMAIN edad_filter : edad_filter[k] # None

Listed(data) == {Preguntas(data)[i].identificador : i \in DOMAIN Preguntas(data)}

C26_QueryableIsListed ==
    (IsQuery /\ cached_data # None) =>
        (ret[1].err = None <=> ret[1].question_id \in Listed(cached_data[1]))

====
